---- MODULE Spec2Model ----
(***************************************************************************)
(* Soft Actor-Critic example (examples/sac_pybullet.py).                   *)
(*                                                                         *)
(* The model follows the script: the networks are built (Mlp.__init__,     *)
(* TanhGaussianPolicy.__init__), the target network is deep-copied, the    *)
(* optimizers and the SoftActorCritic object are created, and the main     *)
(* loop calls SoftActorCritic.update.  update is followed statement group  *)
(* by statement group, so that the order of forward passes, backward       *)
(* passes and optimizer steps, and an exception raised in the middle, are  *)
(* all visible.                                                            *)
(*                                                                         *)
(* Numbers.  Every tensor is a scalar, every net has one hidden layer, a    *)
(* batch is one transition, and floats are integers.  The fractions of the *)
(* code (discount, exp) are kept exact by fixed-point scaling, the         *)
(* smoothing rounds down, tanh saturates to -1, 0, 1.  An optimizer step   *)
(* moves a parameter one unit against the sign of its gradient and skips a *)
(* parameter whose gradient buffer is None, as torch.optim.Adam does.      *)
(*                                                                         *)
(* Exceptions.  update catches nothing.  Any statement group of it may     *)
(* raise (replay.sample, a shape mismatch, autograd refusing to go         *)
(* backward through a weight an optimizer has stepped in place, which      *)
(* depends on the torch version); Raise models all of these.               *)
(***************************************************************************)
EXTENDS Integers, Sequences, FiniteSets, TLC

VARIABLES
    pc,            \* position in __main__ / in update
    param,         \* value of every parameter tensor (.data)
    grad,          \* gradient buffer of every parameter tensor (.grad)
    hidden_init,   \* which initializer wrote each net's hidden weight
    optimizer,     \* the parameter list each optimizer was built with
    critic,        \* the SoftActorCritic object's configuration fields
    log_alpha,     \* critic.log_alpha.data (None when not created)
    log_alpha_grad,\* critic.log_alpha.grad
    loc,           \* the local variables of the running update call
    calls,         \* number of update calls that returned
    start,         \* history: parameters and log_alpha when update was entered
    vf_post,       \* history: vf's parameters right after this call's V step
    built_param,   \* history: the parameters when the critic was constructed
    failed_at,     \* the position at which update raised, or "none"
    policy_cfg,    \* policy.std / policy.log_std
    fwd            \* the record of the last two TanhGaussianPolicy.forward calls

vars == << pc, param, grad, hidden_init, optimizer, critic, log_alpha,
           log_alpha_grad, loc, calls, start, vf_post, built_param,
           failed_at, policy_cfg, fwd >>

\* Python's None, and a present value v, of an optional
None == << >>

Some(v) == << v >>

Val(o) == o[1]

-----------------------------------------------------------------------------
(* Bounds of the model *)

\* number of iterations of the main loop that are explored
MaxUpdates == 2
\* soft_target_tau ranges over 0/TauDen .. TauDen/TauDen
TauDen == 2

(* Program constants *)

\* discount = .99, as GammaNum / GammaDen
GammaNum == 99
GammaDen == 100
\* b_init_value, one unit
B_INIT == 1
\* th.clamp(log_std, -20, 2)
LOG_STD_MIN == -20
LOG_STD_MAX == 2

\* env.action_space.shape
ActionShape == << 1 >>

-----------------------------------------------------------------------------
(* Arithmetic *)

Sgn(x) == IF x > 0 THEN 1 ELSE IF x < 0 THEN -1 ELSE 0

Clamp(x, lo, hi) == IF x < lo THEN lo ELSE IF x > hi THEN hi ELSE x

\* F.relu and its derivative
Relu(x) == IF x > 0 THEN x ELSE 0

ReluGrad(x) == IF x > 0 THEN 1 ELSE 0

\* exp in fixed point with k fractional bits (base 2): ExpFix(0, k) is 1.0
ExpFix(x, k) == 2 ^ (x + k)

\* th.tanh of a fixed-point value whose 1.0 is `one`: saturates to -1 / 1
Tanh(z, one) == IF z >= one THEN 1 ELSE IF z <= -one THEN -1 ELSE 0

RECURSIVE Prod(_)
Prod(s) == IF s = << >> THEN 1 ELSE Head(s) * Prod(Tail(s))

\* fractional bits of the sampled pre-tanh value
ZBits == -LOG_STD_MIN

\* fixed-point 1.0 of alpha: log_alpha moves at most one unit per update
AlphaBits == MaxUpdates

AlphaOne == ExpFix(0, AlphaBits)

\* common fixed-point scale of every gradient buffer
GradOne == GammaDen * GammaDen * AlphaOne

-----------------------------------------------------------------------------
(* Parameter tensors *)

Nets == { "policy", "qf", "vf", "target_vf" }

Kinds == { "weight", "bias" }

Refs ==
    { << n, l, k >> : n \in Nets, l \in { "fcs", "last_fc" }, k \in Kinds }
    \cup { << "policy", "last_fc_log_std", k >> : k \in Kinds }

\* as if self.fcs were an nn.ModuleList: the hidden layers are registered too
ParametersWithHidden(n) ==
    << << n, "fcs", "weight" >>, << n, "fcs", "bias" >>,
       << n, "last_fc", "weight" >>, << n, "last_fc", "bias" >> >>

\* nn.Module.parameters(): the registered sub-modules only.  self.fcs is a
\* plain Python list, so the hidden layers are not among them.
Parameters(n) ==
    << << n, "last_fc", "weight" >>, << n, "last_fc", "bias" >> >>
    \o (IF n = "policy" /\ policy_cfg.std = None
        THEN << << n, "last_fc_log_std", "weight" >>,
                << n, "last_fc_log_std", "bias" >> >>
        ELSE << >>)

Range(s) == { s[i] : i \in DOMAIN s }

\* every parameter tensor of net n, registered or not
AllParams(n) == { r \in Refs : r[1] = n }

HiddenParams(n) == { r \in Refs : r[1] = n /\ r[2] = "fcs" }

-----------------------------------------------------------------------------
(* Mlp *)

\* Mlp.fanin_init: the fan-in of a tensor of the given size, or the exception
fanin_init(size) ==
    IF Len(size) = 2 THEN [ fan_in |-> size[1] ]
    ELSE IF Len(size) > 2 THEN [ fan_in |-> Prod(Tail(size)) ]
    ELSE "Exception"

\* Mlp.__init__ for net n with one hidden layer: nn.Linear draws the hidden
\* weight hw itself, the hidden bias is filled with b_init_value, and the last
\* layer is drawn uniformly (lw, lb).  hidden_init is bound but never called.
MlpInit(p, n, hw, lw, lb) ==
    [ p EXCEPT ![<< n, "fcs", "weight" >>] = hw,
               ![<< n, "fcs", "bias" >>] = B_INIT,
               ![<< n, "last_fc", "weight" >>] = lw,
               ![<< n, "last_fc", "bias" >>] = lb ]

\* Mlp.forward / FlattenMlp.forward on input x: the saved activations and the output
Forward(p, n, x) ==
    LET pre == p[<< n, "fcs", "weight" >>] * x + p[<< n, "fcs", "bias" >>]
        h == Relu(pre)
    IN  [ x |-> x, pre |-> pre, h |-> h,
          out |-> p[<< n, "last_fc", "weight" >>] * h + p[<< n, "last_fc", "bias" >>] ]

-----------------------------------------------------------------------------
(* TanhGaussianPolicy.forward *)

\* normal_dist.log_prob(pre_tanh_value) at pre_tanh_value = 0, rounded
NormalLogProb(mean, ls) ==
    LET quad == IF ls >= 0 THEN (mean * mean) \div (2 * (4 ^ ls))
                ELSE (mean * mean * (4 ^ (-ls))) \div 2
    IN  -quad - ls - 1

\* forward that samples whatever `deterministic` says
PolicyForwardAlwaysSample(p, cfg, obs, reparameterize, deterministic, return_log_prob, eps) ==
    LET h == Relu(p[<< "policy", "fcs", "weight" >>] * obs + p[<< "policy", "fcs", "bias" >>])
        mean == p[<< "policy", "last_fc", "weight" >>] * h + p[<< "policy", "last_fc", "bias" >>]
        ls == IF cfg.std = None
              THEN Clamp(p[<< "policy", "last_fc_log_std", "weight" >>] * h
                         + p[<< "policy", "last_fc_log_std", "bias" >>],
                         LOG_STD_MIN, LOG_STD_MAX)
              ELSE cfg.log_std
        z == mean * ExpFix(0, ZBits) + ExpFix(ls, ZBits) * eps
        action == Tanh(z, ExpFix(0, ZBits))
    IN  [ action |-> action, mean |-> mean,
          log_prob |-> IF action # 0 THEN Some(-1)
                       ELSE Some(Tanh(NormalLogProb(mean, ls), 1)) ]

\* forward(obs, reparameterize, deterministic, return_log_prob); eps is the
\* draw of normal_dist.sample()
PolicyForward(p, cfg, obs, reparameterize, deterministic, return_log_prob, eps) ==
    LET f == Forward(p, "policy", obs)
        mean == f.out
        ls == IF cfg.std = None
              THEN Clamp(p[<< "policy", "last_fc_log_std", "weight" >>] * f.h
                         + p[<< "policy", "last_fc_log_std", "bias" >>],
                         LOG_STD_MIN, LOG_STD_MAX)
              ELSE cfg.log_std
        z == mean * ExpFix(0, ZBits) + ExpFix(ls, ZBits) * eps
        action == IF deterministic THEN Tanh(mean, 1) ELSE Tanh(z, ExpFix(0, ZBits))
        \* pre_tanh_value is +-inf when the action saturates: log_prob(inf) = -inf,
        \* and tanh(-inf) = -1
        log_prob == IF deterministic THEN None
                    ELSE IF action # 0 THEN Some(-1)
                    ELSE Some(Tanh(NormalLogProb(mean, ls), 1))
    IN  [ action |-> action, mean |-> mean, log_prob |-> log_prob ]

-----------------------------------------------------------------------------
(* Autograd and optimizers *)

\* backward() accumulates into .grad; a buffer that is None is created
Accum(g, r, v) == [ g EXCEPT ![r] = IF @ = None THEN Some(v) ELSE Some(Val(@) + v) ]

\* backward through one Mlp forward pass f of net n, `up` being d loss / d out
\* (in GradOne units).  Every leaf of the graph receives a gradient, the
\* unregistered hidden layers included; the saved activations are those of the
\* forward pass, the last layer's weight is read from the tensor as it is now.
BackwardNet(g, p, n, f, up) ==
    LET lw == p[<< n, "last_fc", "weight" >>]
        g1 == Accum(g, << n, "last_fc", "weight" >>, up * f.h)
        g2 == Accum(g1, << n, "last_fc", "bias" >>, up)
        g3 == Accum(g2, << n, "fcs", "weight" >>, up * lw * ReluGrad(f.pre) * f.x)
    IN  Accum(g3, << n, "fcs", "bias" >>, up * lw * ReluGrad(f.pre))

\* optimizer.zero_grad(): the buffers of the optimizer's own parameters
ZeroGrad(g, refs) ==
    [ r \in Refs |-> IF r \in refs /\ g[r] # None THEN Some(0) ELSE g[r] ]

\* optimizer.step(): each own parameter with a gradient moves against it
OptStep(p, g, refs) ==
    [ r \in Refs |-> IF r \in refs /\ g[r] # None
                     THEN p[r] - Sgn(Val(g[r])) ELSE p[r] ]

-----------------------------------------------------------------------------
(* The losses of update, as the values and the graphs the code builds *)

\* alpha_loss = -(log_alpha * (log_pi + target_entropy).detach()).mean():
\* its gradient with respect to log_alpha
AlphaLossGrad(log_pi, target_entropy) ==
    -(log_pi + target_entropy) * GradOne

\* q_target = rewards + (1 - dones) * discount * target_v_values, times GammaDen
QTarget(b, tv) == GammaDen * b.r + (1 - b.d) * GammaNum * tv

\* qf_loss.backward(): q_pred reaches qf, and q_target, which is not detached,
\* reaches target_vf
QfLossBackward(g, p, l) ==
    LET e == GammaDen * l.fq.out - l.q_target
        gq == BackwardNet(g, p, "qf", l.fq, 2 * e * GammaDen * AlphaOne)
    IN  BackwardNet(gq, p, "target_vf", l.ft,
                    -2 * e * (1 - l.batch.d) * GammaNum * AlphaOne)

\* v_target = q_new_actions - alpha * log_pi, times AlphaOne
VTarget(l) == AlphaOne * l.fn.out - l.alpha * l.log_pi

\* vf_loss.backward(): v_target is detached, only v_pred reaches vf
VfLossBackward(g, p, l) ==
    LET e == AlphaOne * l.fv.out - l.v_target
    IN  BackwardNet(g, p, "vf", l.fv, 2 * e * GammaDen * GammaDen)

\* policy_loss = (alpha * log_pi - q_new_actions).mean(), times AlphaOne
PolicyLoss(l) == l.alpha * l.log_pi - AlphaOne * l.fn.out

\* policy_loss.backward() if log_pi were not detached: the loss reaches the
\* policy's heads as well
PolicyLossBackwardAttached(g, p, l) ==
    LET gq == BackwardNet(g, p, "qf", l.fn, -GradOne)
        up == l.alpha * GammaDen * GammaDen
    IN  Accum(Accum(gq, << "policy", "last_fc", "weight" >>, up),
              << "policy", "last_fc", "bias" >>, -up)

\* policy_loss.backward(): q_new_actions reaches qf; log_pi is detached and the
\* actions are the batch's, so nothing reaches the policy
PolicyLossBackward(g, p, l) ==
    BackwardNet(g, p, "qf", l.fn, -GradOne)

\* policy_loss.backward(): alpha = log_alpha.exp() is not detached, so the loss
\* reaches log_alpha when automatic tuning is on
PolicyLossAlphaGrad(l) == l.log_pi * l.alpha * GammaDen * GammaDen

\* the smoothing with the two weights exchanged
SoftUpdateSwapped(t, s, n) == (t * n + s * (TauDen - n)) \div TauDen

\* the smoothing of one target tensor t towards the source s, tau = n / TauDen
SoftUpdate(t, s, n) == (t * (TauDen - n) + s * n) \div TauDen

-----------------------------------------------------------------------------
(* State *)

\* the content of the experience replay: the transitions a batch is drawn from
Transitions ==
    { [ s |-> 1, a |-> 1, r |-> 1, s2 |-> 2, d |-> 0 ],
      [ s |-> 2, a |-> -1, r |-> 0, s2 |-> 1, d |-> 1 ],
      [ s |-> 0, a |-> 1, r |-> 2, s2 |-> 1, d |-> 0 ] }

\* the draws of normal_dist.sample()
Noise == { -1, 0, 1 }

NoForward == [ x |-> 0, pre |-> 0, h |-> 0, out |-> 0 ]

NoLocals ==
    [ batch |-> [ s |-> 0, a |-> 0, r |-> 0, s2 |-> 0, d |-> 0 ],
      log_pi |-> 0, alpha |-> 0, alpha_tracked |-> FALSE,
      fq |-> NoForward, ft |-> NoForward, fn |-> NoForward, fv |-> NoForward,
      q_target |-> 0, v_target |-> 0, policy_loss |-> 0 ]

NoCritic ==
    [ built |-> FALSE, soft_target_tau |-> 0,
      use_automatic_entropy_tuning |-> FALSE, target_entropy_arg |-> None,
      target_entropy |-> None ]

UpdatePcs ==
    { "update", "alpha", "qf_loss", "vf_loss", "policy_loss",
      "qf_step", "vf_step", "policy_step", "smooth" }

Snapshot == [ param |-> param, log_alpha |-> log_alpha ]

Init ==
    /\ pc = "new_policy"
    /\ param = [ r \in Refs |-> 0 ]
    /\ grad = [ r \in Refs |-> None ]
    /\ hidden_init = [ n \in Nets |-> "unbuilt" ]
    /\ optimizer = [ o \in { "policy", "qf", "vf" } |-> << >> ]
    /\ critic = NoCritic
    /\ log_alpha = None
    /\ log_alpha_grad = None
    /\ loc = NoLocals
    /\ calls = 0
    /\ start = [ param |-> [ r \in Refs |-> 0 ], log_alpha |-> None ]
    /\ vf_post = [ r \in Refs |-> 0 ]
    /\ built_param = [ r \in Refs |-> 0 ]
    /\ failed_at = "none"
    /\ policy_cfg = [ std |-> None, log_std |-> None ]
    /\ fwd = << >>

-----------------------------------------------------------------------------
(* __main__: construction *)

\* the random draws of the policy's construction: the hidden weight (nn.Linear's
\* own initializer), last_fc weight and bias, last_fc_log_std weight and bias
\* (uniform_(-init_w, init_w))
PolicyDraws == { << 1, 1, -1, -1, 0 >>, << 1, -1, 1, 1, -1 >> }

\* the random draws (hidden weight, last_fc weight, last_fc bias) of qnet and of vnet
QDraws == { << 1, 1, -1 >>, << 2, -1, 1 >> }

VDraws == { << 1, -1, 1 >>, << 1, 1, 1 >> }

\* policy = TanhGaussianPolicy(hidden_sizes, obs_dim, action_dim): std is None,
\* so the log-std head is created
NewPolicy ==
    /\ pc = "new_policy"
    /\ \E w \in PolicyDraws :
          param' = [ MlpInit(param, "policy", w[1], w[2], w[3])
                       EXCEPT ![<< "policy", "last_fc_log_std", "weight" >>] = w[4],
                              ![<< "policy", "last_fc_log_std", "bias" >>] = w[5] ]
    /\ hidden_init' = [ hidden_init EXCEPT !["policy"] = "default" ]
    /\ policy_cfg' = [ std |-> None, log_std |-> None ]
    /\ pc' = "new_qnet"
    /\ UNCHANGED << grad, optimizer, critic, log_alpha, log_alpha_grad, loc,
                    calls, start, vf_post, built_param, failed_at, fwd >>

\* qnet = FlattenMlp(hidden_sizes, input_size = obs_dim + action_dim, output_size = 1)
NewQnet ==
    /\ pc = "new_qnet"
    /\ \E w \in QDraws : param' = MlpInit(param, "qf", w[1], w[2], w[3])
    /\ hidden_init' = [ hidden_init EXCEPT !["qf"] = "default" ]
    /\ pc' = "new_vnet"
    /\ UNCHANGED << grad, optimizer, critic, log_alpha, log_alpha_grad, loc,
                    calls, start, vf_post, built_param, failed_at,
                    policy_cfg, fwd >>

\* vnet = FlattenMlp(hidden_sizes, input_size = obs_dim, output_size = 1)
NewVnet ==
    /\ pc = "new_vnet"
    /\ \E w \in VDraws : param' = MlpInit(param, "vf", w[1], w[2], w[3])
    /\ hidden_init' = [ hidden_init EXCEPT !["vf"] = "default" ]
    /\ pc' = "deepcopy"
    /\ UNCHANGED << grad, optimizer, critic, log_alpha, log_alpha_grad, loc,
                    calls, start, vf_post, built_param, failed_at,
                    policy_cfg, fwd >>

\* target_vnet = copy.deepcopy(vnet): every tensor of vnet, the list fcs included
DeepCopy ==
    /\ pc = "deepcopy"
    /\ param' = [ r \in Refs |-> IF r[1] = "target_vf"
                                 THEN param[<< "vf", r[2], r[3] >>] ELSE param[r] ]
    /\ grad' = [ r \in Refs |-> IF r[1] = "target_vf"
                                THEN grad[<< "vf", r[2], r[3] >>] ELSE grad[r] ]
    /\ hidden_init' = [ hidden_init EXCEPT !["target_vf"] = hidden_init["vf"] ]
    /\ pc' = "optimizers"
    /\ UNCHANGED << optimizer, critic, log_alpha, log_alpha_grad, loc, calls,
                    start, vf_post, built_param, failed_at,
                    policy_cfg, fwd >>

\* the optimizers, had the Q optimizer been given the target's parameters too
NewOptimizersWithTarget ==
    /\ pc = "optimizers"
    /\ optimizer' = [ policy |-> Parameters("policy"),
                      qf |-> Parameters("qf") \o Parameters("target_vf"),
                      vf |-> Parameters("vf") ]
    /\ pc' = "new_critic"
    /\ UNCHANGED << param, grad, hidden_init, critic, log_alpha, log_alpha_grad,
                    loc, calls, start, vf_post, built_param, failed_at,
                    policy_cfg, fwd >>

\* the three optim.Adam(net.parameters(), lr = 1e-2)
NewOptimizers ==
    /\ pc = "optimizers"
    /\ optimizer' = [ policy |-> Parameters("policy"),
                      qf |-> Parameters("qf"),
                      vf |-> Parameters("vf") ]
    /\ pc' = "new_critic"
    /\ UNCHANGED << param, grad, hidden_init, critic, log_alpha, log_alpha_grad,
                    loc, calls, start, vf_post, built_param, failed_at,
                    policy_cfg, fwd >>

\* Python truthiness of the target_entropy argument
Truthy(o) == o # None /\ Val(o) # 0

\* the target entropy SoftActorCritic.__init__ keeps for the argument arg
TargetEntropy(arg) ==
    IF Truthy(arg) THEN arg ELSE Some(-Prod(ActionShape))

\* the values of the target_entropy argument that are tried
EntropyArgs == { None, Some(0), Some(-2) }

\* SoftActorCritic.__init__(..., soft_target_tau, use_automatic_entropy_tuning,
\* target_entropy)
NewCritic ==
    /\ pc = "new_critic"
    /\ \E tau \in 0 .. TauDen, auto \in BOOLEAN, arg \in EntropyArgs :
          /\ ~auto => arg = None
          /\ critic' = [ built |-> TRUE, soft_target_tau |-> tau,
                         use_automatic_entropy_tuning |-> auto,
                         target_entropy_arg |-> arg,
                         target_entropy |-> IF auto THEN TargetEntropy(arg) ELSE None ]
          /\ log_alpha' = IF auto THEN Some(0) ELSE None
    /\ built_param' = param
    /\ pc' = "idle"
    /\ UNCHANGED << param, grad, hidden_init, optimizer, log_alpha_grad, loc,
                    calls, start, vf_post, failed_at, policy_cfg, fwd >>

-----------------------------------------------------------------------------
(* SoftActorCritic.update *)

\* the main loop: env.run fills the replay, then critic.update(replay, env) is entered
MainLoop ==
    /\ pc = "idle"
    /\ calls < MaxUpdates
    /\ pc' = "update"
    /\ start' = Snapshot
    /\ vf_post' = param
    /\ loc' = NoLocals
    /\ UNCHANGED << param, grad, hidden_init, optimizer, critic, log_alpha,
                    log_alpha_grad, calls, built_param, failed_at, policy_cfg, fwd >>

\* batch = replay.sample(40); actions, values, log_pi = self.policy(batch.states);
\* log_pi = log_pi.sum(-1).detach()
Sample ==
    /\ pc = "update"
    /\ \E b \in Transitions, eps \in Noise :
          LET out == PolicyForward(param, policy_cfg, b.s, TRUE, FALSE, FALSE, eps)
          IN  loc' = [ loc EXCEPT !.batch = b, !.log_pi = Val(out.log_prob) ]
    /\ pc' = "alpha"
    /\ UNCHANGED << param, grad, hidden_init, optimizer, critic, log_alpha,
                    log_alpha_grad, calls, start, vf_post, built_param, failed_at,
                    policy_cfg, fwd >>

\* the alpha loss, alpha_optimizer.zero_grad / backward / step, alpha = log_alpha.exp();
\* or alpha = 1 without automatic entropy tuning
AlphaStep ==
    /\ pc = "alpha"
    /\ IF critic.use_automatic_entropy_tuning
       THEN LET g == AlphaLossGrad(loc.log_pi, Val(critic.target_entropy))
                la == Val(log_alpha) - Sgn(g)
            IN  /\ log_alpha_grad' = Some(g)
                /\ log_alpha' = Some(la)
                /\ loc' = [ loc EXCEPT !.alpha = ExpFix(la, AlphaBits),
                                       !.alpha_tracked = TRUE ]
       ELSE /\ loc' = [ loc EXCEPT !.alpha = AlphaOne, !.alpha_tracked = FALSE ]
            /\ UNCHANGED << log_alpha, log_alpha_grad >>
    /\ pc' = "qf_loss"
    /\ UNCHANGED << param, grad, hidden_init, optimizer, critic, calls, start,
                    vf_post, built_param, failed_at,
                    policy_cfg, fwd >>

\* the Q loss followed at once by the Q gradient step
QfLossThenStep ==
    /\ pc = "qf_loss"
    /\ LET b == loc.batch
           ft == Forward(param, "target_vf", b.s2)
           l == [ loc EXCEPT !.fq = Forward(param, "qf", b.s + b.a),
                             !.ft = ft,
                             !.q_target = QTarget(b, ft.out) ]
           own == Range(optimizer.qf)
           g == QfLossBackward(ZeroGrad(grad, own), param, l)
       IN  /\ loc' = l
           /\ grad' = g
           /\ param' = OptStep(param, g, own)
    /\ pc' = "vf_loss"
    /\ UNCHANGED << hidden_init, optimizer, critic, log_alpha, log_alpha_grad,
                    calls, start, vf_post, built_param, failed_at, policy_cfg, fwd >>

\* q_pred, target_v_values, q_target, qf_loss
QfLoss ==
    /\ pc = "qf_loss"
    /\ LET b == loc.batch
           ft == Forward(param, "target_vf", b.s2)
       IN  loc' = [ loc EXCEPT !.fq = Forward(param, "qf", b.s + b.a),
                               !.ft = ft,
                               !.q_target = QTarget(b, ft.out) ]
    /\ pc' = "vf_loss"
    /\ UNCHANGED << param, grad, hidden_init, optimizer, critic, log_alpha,
                    log_alpha_grad, calls, start, vf_post, built_param, failed_at,
                    policy_cfg, fwd >>

\* q_new_actions = self.qf(batch.next_states, batch.actions), v_pred, v_target, vf_loss
VfLoss ==
    /\ pc = "vf_loss"
    /\ LET b == loc.batch
           l == [ loc EXCEPT !.fn = Forward(param, "qf", b.s2 + b.a),
                             !.fv = Forward(param, "vf", b.s) ]
       IN  loc' = [ l EXCEPT !.v_target = VTarget(l) ]
    /\ pc' = "policy_loss"
    /\ UNCHANGED << param, grad, hidden_init, optimizer, critic, log_alpha,
                    log_alpha_grad, calls, start, vf_post, built_param, failed_at,
                    policy_cfg, fwd >>

\* policy_loss = (alpha * log_pi - q_new_actions).mean()
PolicyLossStep ==
    /\ pc = "policy_loss"
    /\ loc' = [ loc EXCEPT !.policy_loss = PolicyLoss(loc) ]
    /\ pc' = "qf_step"
    /\ UNCHANGED << param, grad, hidden_init, optimizer, critic, log_alpha,
                    log_alpha_grad, calls, start, vf_post, built_param, failed_at,
                    policy_cfg, fwd >>

\* self.qf_optimizer.zero_grad(); qf_loss.backward(); self.qf_optimizer.step()
QfStep ==
    /\ pc = "qf_step"
    /\ LET own == Range(optimizer.qf)
           g == QfLossBackward(ZeroGrad(grad, own), param, loc)
       IN  /\ grad' = g
           /\ param' = OptStep(param, g, own)
    /\ pc' = "vf_step"
    /\ UNCHANGED << hidden_init, optimizer, critic, log_alpha, log_alpha_grad,
                    loc, calls, start, vf_post, built_param, failed_at,
                    policy_cfg, fwd >>

\* self.vf_optimizer.zero_grad(); vf_loss.backward(); self.vf_optimizer.step()
VfStep ==
    /\ pc = "vf_step"
    /\ LET own == Range(optimizer.vf)
           g == VfLossBackward(ZeroGrad(grad, own), param, loc)
       IN  /\ grad' = g
           /\ param' = OptStep(param, g, own)
           /\ vf_post' = OptStep(param, g, own)
    /\ pc' = "policy_step"
    /\ UNCHANGED << hidden_init, optimizer, critic, log_alpha, log_alpha_grad,
                    loc, calls, start, built_param, failed_at, policy_cfg, fwd >>

\* self.policy_optimizer.zero_grad(); policy_loss.backward();
\* self.policy_optimizer.step().  The backward pass goes through the graph of
\* q_new_actions, built before the Q step: where autograd accepts that, the
\* gradients are taken with the last layer as it is now (otherwise see Raise)
PolicyStep ==
    /\ pc = "policy_step"
    /\ LET own == Range(optimizer.policy)
           g == PolicyLossBackward(ZeroGrad(grad, own), param, loc)
       IN  /\ grad' = g
           /\ param' = OptStep(param, g, own)
    /\ log_alpha_grad' = IF loc.alpha_tracked
                         THEN Some(Val(log_alpha_grad) + PolicyLossAlphaGrad(loc))
                         ELSE log_alpha_grad
    /\ pc' = "smooth"
    /\ UNCHANGED << hidden_init, optimizer, critic, log_alpha, loc, calls,
                    start, vf_post, built_param, failed_at,
                    policy_cfg, fwd >>

\* for target_param, param in zip(self.target_vf.parameters(), self.vf.parameters()):
\*     target_param.data.copy_(target_param.data * (1.0 - tau) + param.data * tau)
Smooth ==
    /\ pc = "smooth"
    /\ LET tp == Parameters("target_vf")
           sp == Parameters("vf")
           zipped == { i \in DOMAIN tp : i \in DOMAIN sp }
       IN  param' = [ r \in Refs |->
                        IF \E i \in zipped : tp[i] = r
                        THEN LET i == CHOOSE j \in zipped : tp[j] = r
                             IN  SoftUpdate(param[r], param[sp[i]], critic.soft_target_tau)
                        ELSE param[r] ]
    /\ pc' = "idle"
    /\ calls' = calls + 1
    /\ UNCHANGED << grad, hidden_init, optimizer, critic, log_alpha, log_alpha_grad,
                    loc, start, vf_post, built_param, failed_at,
                    policy_cfg, fwd >>

\* an exception that restores what the call had changed
RaiseRollback ==
    /\ pc \in UpdatePcs
    /\ failed_at' = pc
    /\ pc' = "aborted"
    /\ param' = start.param
    /\ log_alpha' = start.log_alpha
    /\ UNCHANGED << grad, hidden_init, optimizer, critic, log_alpha_grad, loc,
                    calls, start, vf_post, built_param, policy_cfg, fwd >>

\* an exception raised inside update: nothing catches it, the call and the
\* script end where they are
Raise ==
    /\ pc \in UpdatePcs
    /\ failed_at' = pc
    /\ pc' = "aborted"
    /\ UNCHANGED << param, grad, hidden_init, optimizer, critic, log_alpha,
                    log_alpha_grad, loc, calls, start, vf_post, built_param,
                    policy_cfg, fwd >>

Next ==
    \/ NewPolicy
    \/ NewQnet
    \/ NewVnet
    \/ DeepCopy
    \/ NewOptimizers
    \/ NewCritic
    \/ MainLoop
    \/ Sample
    \/ AlphaStep
    \/ QfLoss
    \/ VfLoss
    \/ PolicyLossStep
    \/ QfStep
    \/ VfStep
    \/ PolicyStep
    \/ Smooth
    \/ Raise

Spec == Init /\ [][Next]_vars

-----------------------------------------------------------------------------
(* TanhGaussianPolicy.forward called directly, with any flags *)

Observations == { 0, 1, 2 }

\* std = None, or a fixed std whose logarithm lies in the accepted range
PolicyConfigs ==
    { [ std |-> None, log_std |-> None ] }
    \cup { [ std |-> Some(2 ^ k), log_std |-> k ] : k \in 0 .. LOG_STD_MAX }

InitForward ==
    /\ pc = "forward"
    /\ policy_cfg \in PolicyConfigs
    /\ \E w \in PolicyDraws :
          param = [ MlpInit([ r \in Refs |-> 0 ], "policy", w[1], w[2], w[3])
                      EXCEPT ![<< "policy", "last_fc_log_std", "weight" >>] =
                                 IF policy_cfg.std = None THEN w[4] ELSE 0,
                             ![<< "policy", "last_fc_log_std", "bias" >>] =
                                 IF policy_cfg.std = None THEN w[5] ELSE 0 ]
    /\ grad = [ r \in Refs |-> None ]
    /\ hidden_init = [ n \in Nets |-> IF n = "policy" THEN "default" ELSE "unbuilt" ]
    /\ optimizer = [ o \in { "policy", "qf", "vf" } |-> << >> ]
    /\ critic = NoCritic
    /\ log_alpha = None
    /\ log_alpha_grad = None
    /\ loc = NoLocals
    /\ calls = 0
    /\ start = [ param |-> [ r \in Refs |-> 0 ], log_alpha |-> None ]
    /\ vf_post = [ r \in Refs |-> 0 ]
    /\ built_param = [ r \in Refs |-> 0 ]
    /\ failed_at = "none"
    /\ fwd = << >>

\* one call policy(obs, reparameterize, deterministic, return_log_prob); the
\* last two calls are kept, with their arguments and what they returned
CallForward ==
    /\ pc = "forward"
    /\ \E obs \in Observations, rp \in BOOLEAN, det \in BOOLEAN, rl \in BOOLEAN,
          eps \in Noise :
          LET call == [ obs |-> obs, reparameterize |-> rp, deterministic |-> det,
                        return_log_prob |-> rl,
                        out |-> PolicyForward(param, policy_cfg, obs, rp, det, rl, eps) ]
          IN  fwd' = IF Len(fwd) < 2 THEN Append(fwd, call) ELSE << fwd[2], call >>
    /\ UNCHANGED << pc, param, grad, hidden_init, optimizer, critic, log_alpha,
                    log_alpha_grad, loc, calls, start, vf_post, built_param,
                    failed_at, policy_cfg >>

NextForward == CallForward

SpecForward == InitForward /\ [][NextForward]_vars

-----------------------------------------------------------------------------
(* Properties *)

TargetParams == Parameters("target_vf")

SourceParams == Parameters("vf")

\* some tensor of net n differs between the parameter stores p and q
Differs(n, p, q) == \E r \in AllParams(n) : p[r] # q[r]

\* the update call has returned at least once and the loop is between calls
Returned == pc = "idle" /\ calls > 0

\* C1: inside an update call the target state-value network keeps the values it
\* had when the call was entered until the smoothing step, which leaves each
\* target parameter at target_old * (1 - tau) + vf_post * tau, vf_post being the
\* state-value parameter after this call's V gradient step; no optimizer step
\* writes a target tensor, and a call that raises leaves the target untouched.
C1_TargetOnlySmoothed ==
    /\ pc \in UpdatePcs \cup { "aborted" } =>
          \A r \in AllParams("target_vf") : param[r] = start.param[r]
    /\ pc \in { "policy_step", "smooth" } =>
          \A r \in AllParams("vf") : param[r] = vf_post[r]
    /\ Returned =>
          /\ \A i \in DOMAIN TargetParams :
                param[TargetParams[i]] =
                    (start.param[TargetParams[i]] * (TauDen - critic.soft_target_tau)
                     + vf_post[SourceParams[i]] * critic.soft_target_tau) \div TauDen
          /\ \A r \in HiddenParams("target_vf") : param[r] = start.param[r]

\* C1 witness: a call has returned in which the V step moved vf, the smoothing
\* moved the target, and the Q loss had left a gradient on a target tensor
C1_Witness ==
    /\ Returned
    /\ Differs("vf", vf_post, start.param)
    /\ Differs("target_vf", param, start.param)
    /\ \E r \in Range(TargetParams) : grad[r] # None /\ Val(grad[r]) # 0

\* C2 as stated: once the Q gradient step has been applied, q_new and the
\* state-value target are those of Q's post-step parameters
C2_Original ==
    pc \in { "vf_step", "policy_step", "smooth" } =>
        LET b == loc.batch
            fn == Forward(param, "qf", b.s2 + b.a)
        IN  /\ loc.fn.out = fn.out
            /\ loc.v_target = AlphaOne * fn.out - loc.alpha * loc.log_pi
            /\ loc.policy_loss = loc.alpha * loc.log_pi - AlphaOne * fn.out

\* C2 amended: the three losses are all computed before any of the Q, V and
\* policy gradient steps: no network parameter has changed when they are
\* computed, so q_new, the state-value target and the policy loss are those of
\* the parameters Q had when the call was entered (and of alpha after the
\* temperature step); the steps then run in the order Q, V, policy, smoothing.
C2_LossesBeforeSteps ==
    /\ pc \in { "update", "alpha", "qf_loss", "vf_loss", "policy_loss", "qf_step" } =>
          param = start.param
    /\ pc \in { "policy_loss", "qf_step", "vf_step", "policy_step", "smooth" } =>
          LET b == loc.batch
              fn == Forward(start.param, "qf", b.s2 + b.a)
          IN  /\ loc.fn = fn
              /\ loc.fq = Forward(start.param, "qf", b.s + b.a)
              /\ loc.v_target = AlphaOne * fn.out - loc.alpha * loc.log_pi
    /\ pc \in { "qf_step", "vf_step", "policy_step", "smooth" } =>
          loc.policy_loss =
              loc.alpha * loc.log_pi
              - AlphaOne * Forward(start.param, "qf", loc.batch.s2 + loc.batch.a).out
    /\ pc = "vf_step" => ~Differs("vf", param, start.param)
    /\ pc \in { "vf_step", "policy_step", "smooth" } =>
          ~Differs("target_vf", param, start.param)

\* C2 witness: the Q step has been applied and changed what Q returns on
\* (next_states, actions), after q_new was computed
C2_Witness ==
    /\ pc = "vf_step"
    /\ Differs("qf", param, start.param)
    /\ loc.fn.out # Forward(param, "qf", loc.batch.s2 + loc.batch.a).out

\* C3 as stated: the Q loss leaves no gradient on a target tensor, and the
\* policy loss adds nothing to the gradient of log_alpha or of Q
C3_Original ==
    /\ \A r \in AllParams("target_vf") : grad[r] = None \/ Val(grad[r]) = 0
    /\ pc = "smooth" /\ critic.use_automatic_entropy_tuning =>
          log_alpha_grad = Some(AlphaLossGrad(loc.log_pi, Val(critic.target_entropy)))

\* C4 as stated: with automatic entropy tuning the kept target entropy is the
\* argument whenever one is supplied, and -prod(action shape) otherwise
C4_Original ==
    critic.built /\ critic.use_automatic_entropy_tuning =>
        IF critic.target_entropy_arg # None
        THEN critic.target_entropy = critic.target_entropy_arg
        ELSE critic.target_entropy = Some(-Prod(ActionShape))

\* C5: after an update call with tau = 1 every target parameter equals the
\* corresponding state-value parameter; with tau = 0 every target parameter is
\* what it was when the call was entered, whatever the state-value parameters.
C5_SmoothingEndpoints ==
    Returned =>
        /\ critic.soft_target_tau = TauDen =>
              \A i \in DOMAIN TargetParams :
                  param[TargetParams[i]] = param[SourceParams[i]]
        /\ critic.soft_target_tau = 0 =>
              \A i \in DOMAIN TargetParams :
                  param[TargetParams[i]] = start.param[TargetParams[i]]

\* C5 witness: tau = 1, and the smoothing moved the target onto the source
C5_Witness ==
    /\ Returned
    /\ critic.soft_target_tau = TauDen
    /\ \E i \in DOMAIN TargetParams :
          param[TargetParams[i]] # start.param[TargetParams[i]]

\* the tau = 0 case of C5 is reached too: the source has left the target behind
C5_WitnessTauZero ==
    /\ Returned
    /\ critic.soft_target_tau = 0
    /\ \E i \in DOMAIN TargetParams :
          param[TargetParams[i]] # param[SourceParams[i]]

\* C6: two deterministic forward calls on the same observation return the same
\* action and mean; a deterministic call returns the squashed mean and no
\* log_prob, whatever reparameterize and return_log_prob are.
C6_Deterministic ==
    /\ \A i, j \in DOMAIN fwd :
          (fwd[i].deterministic /\ fwd[j].deterministic /\ fwd[i].obs = fwd[j].obs)
          => /\ fwd[i].out.action = fwd[j].out.action
             /\ fwd[i].out.mean = fwd[j].out.mean
    /\ \A i \in DOMAIN fwd :
          fwd[i].deterministic =>
              /\ fwd[i].out.log_prob = None
              /\ fwd[i].out.action = Clamp(fwd[i].out.mean, -1, 1)

\* C6 witness: two deterministic calls on one observation, with different
\* reparameterize and return_log_prob, returning a non-zero action
C6_Witness ==
    /\ Len(fwd) = 2
    /\ fwd[1].deterministic /\ fwd[2].deterministic
    /\ fwd[1].obs = fwd[2].obs
    /\ fwd[1].reparameterize # fwd[2].reparameterize
    /\ fwd[1].return_log_prob # fwd[2].return_log_prob
    /\ fwd[1].out.action # 0

\* C7 as stated: constructing an Mlp applies fan-in initialization to its
\* hidden layers
C7_Original ==
    \A n \in Nets : hidden_init[n] # "unbuilt" => hidden_init[n] = "fanin"

\* the parameters after the steps of the optimizers in `done`: their step
\* applied to the entry parameters, with the gradient buffers as they are now
SteppedFromStart(done) ==
    OptStep(start.param, grad, UNION { Range(optimizer[o]) : o \in done })

\* C8: when update raises, what the call had already changed stays changed and
\* nothing after the point of failure has run: the parameters are those of the
\* steps before it, and in particular a failure while a loss is computed leaves
\* log_alpha stepped and Q, V, the policy and the target as they were.
C8_NoRollback ==
    pc = "aborted" =>
        /\ failed_at \in { "update", "alpha" } =>
              param = start.param /\ log_alpha = start.log_alpha
        /\ failed_at \in UpdatePcs \ { "update", "alpha" } =>
              log_alpha =
                  IF critic.use_automatic_entropy_tuning
                  THEN Some(Val(start.log_alpha)
                            - Sgn(AlphaLossGrad(loc.log_pi, Val(critic.target_entropy))))
                  ELSE None
        /\ failed_at \in { "qf_loss", "vf_loss", "policy_loss", "qf_step" } =>
              param = start.param
        /\ failed_at = "vf_step" => param = SteppedFromStart({ "qf" })
        /\ failed_at \in { "policy_step", "smooth" } =>
              /\ param = vf_post
              /\ \A r \in Range(optimizer.vf) \cup AllParams("target_vf") \cup AllParams("policy") :
                    param[r] = SteppedFromStart({ "vf" })[r]

\* C8 witness: update raised while a loss was being computed, log_alpha has been
\* stepped by the call and no network parameter has changed
C8_Witness ==
    /\ pc = "aborted"
    /\ failed_at \in { "qf_loss", "vf_loss", "policy_loss" }
    /\ log_alpha # start.log_alpha
    /\ param = start.param

\* update raised after the Q and V steps: Q and V are changed, the target is not
C8_WitnessPartial ==
    /\ pc = "aborted"
    /\ failed_at = "policy_step"
    /\ Differs("qf", param, start.param)
    /\ Differs("vf", param, start.param)
    /\ ~Differs("target_vf", param, start.param)

\* C9: after any sequence of update calls every tensor of the policy has the
\* value it had at construction; the policy loss never gives a policy tensor a
\* gradient, so the policy optimizer's step has nothing to apply.
C9_PolicyFrozen ==
    critic.built =>
        \A r \in AllParams("policy") : param[r] = built_param[r] /\ grad[r] = None

\* C9 witness: the policy optimizer has just stepped in a second update call,
\* and Q has moved since construction
C9_Witness ==
    /\ pc = "smooth"
    /\ calls > 0
    /\ Differs("qf", param, built_param)
    /\ \A r \in AllParams("policy") : param[r] = built_param[r]

\* C10: the hidden layers are in no optimizer's parameter list and not among
\* the smoothed tensors; after any sequence of update calls every hidden weight
\* and bias, the target's included, has its construction-time value, so only
\* last_fc tensors of Q, V and the target can have changed.
C10_HiddenFrozen ==
    critic.built =>
        /\ \A o \in { "policy", "qf", "vf" }, n \in Nets :
              Range(optimizer[o]) \cap HiddenParams(n) = { }
        /\ \A n \in Nets : Range(Parameters(n)) \cap HiddenParams(n) = { }
        /\ \A n \in Nets : \A r \in HiddenParams(n) : param[r] = built_param[r]
        /\ \A r \in Refs :
              param[r] # built_param[r] =>
                  r[1] \in { "qf", "vf", "target_vf" } /\ r[2] = "last_fc"

\* C10 witness: a call has returned, Q's last layer has moved, and Q's hidden
\* weight carries a non-zero gradient that no step has applied
C10_Witness ==
    /\ Returned
    /\ param[<< "qf", "last_fc", "weight" >>] # built_param[<< "qf", "last_fc", "weight" >>]
    /\ grad[<< "qf", "fcs", "weight" >>] # None
    /\ Val(grad[<< "qf", "fcs", "weight" >>]) # 0
    /\ param[<< "qf", "fcs", "weight" >>] = built_param[<< "qf", "fcs", "weight" >>]

====
